---- MODULE Spec2Model ----
(***************************************************************************)
(* A model of the JSON graph core of the repository:                       *)
(*   buildJsonGraph   (src/src/components/json/lib/jsonGraph.ts)           *)
(*   layoutJsonGraph  (src/src/components/json/lib/jsonLayout.ts)          *)
(*                                                                         *)
(* A JSON value is a record [t, s, kids]: t is its JSON type, s the text   *)
(* of a scalar (String(value) for numbers and booleans, the characters of  *)
(* a string), kids the own enumerable entries of a container in the order  *)
(* the runtime enumerates them, each entry a record [k, v].                *)
(***************************************************************************)
EXTENDS Integers, Sequences, FiniteSets, TLC

VARIABLES
    root,        \* buildJsonGraph: the value passed in
    options,     \* buildJsonGraph: { maxDepth, maxNodes, maxChildrenPerNode }
    rootId,      \* graph.rootId
    nodes,       \* graph.nodes
    edges,       \* graph.edges
    truncated,   \* graph.truncated
    nextId,      \* the id counter of pushNode
    queue,       \* the expansion queue
    current,     \* the dequeued item, <<item>> while it is expanded, else <<>>
    rows,        \* the rows of the node being expanded
    shown,       \* the loop counter: i of the array loop, shown of the object loop
    pc,          \* the position in buildJsonGraph, then in layoutJsonGraph
    rects,       \* layoutJsonGraph: the map rects, id -> Rect
    nextY,       \* layoutJsonGraph: the cursor
    visited,     \* layoutJsonGraph: the set visited
    stack,       \* layoutJsonGraph: the activations of dfs, innermost last
    bounds,      \* layoutJsonGraph: the bounds returned
    other,       \* a second invocation, suspended: its own copy of the above
    alone,       \* what the first invocation returned when it ran alone
    who,         \* the invocation that is running: 0 alone, else 1 or 2
    hook         \* useJsonFormatterState: the state of the hook after a render

buildVars == <<root, options, nextId, queue, current, rows, shown>>
graphVars == <<rootId, nodes, edges, truncated>>
layoutVars == <<rects, nextY, visited, stack, bounds>>
pairVars == <<other, alone, who>>
vars == <<root, options, rootId, nodes, edges, truncated, nextId, queue,
          current, rows, shown, pc, rects, nextY, visited, stack, bounds,
          other, alone, who, hook>>

---------------------------------------------------------------------------
(* Bounds of the model. *)

\* The general family of input values holds every value with at most this
\* many entries (keys and indices of all nesting levels together).
MaxEntries == 3

\* The finite limits tried for each option are 0..Max*Opt, next to Infinity.
MaxDepthOpt == 1
MaxNodesOpt == 2
MaxChildrenOpt == 1

---------------------------------------------------------------------------
(* Program constants. *)

\* Number.POSITIVE_INFINITY of the "all" preset: an integer above every
\* length, depth and node count the model reaches, so that x < Infinity and
\* Math.min(x, Infinity) = x hold as they do for the IEEE infinity.
Infinity == 1000000

\* value.length > 48 in jsonPreview
PreviewMax == 48

\* childId of a row that has none
Undefined == "undefined"

\* The texts of the sentinel row, in ASCII: the character U+2026, the suffix
\* of the array sentinel `+${n} <more>` and the text of the object sentinel
\* (both Chinese in the source, "more" and "more fields" followed by U+2026).
Ellipsis == "..."
MoreSuffix == " more"
MoreFields == "more fields..."

GRAPH_PRESETS ==
    [default |-> [maxDepth |-> 6, maxNodes |-> 240, maxChildrenPerNode |-> 30],
     more    |-> [maxDepth |-> 12, maxNodes |-> 3000, maxChildrenPerNode |-> 200],
     all     |-> [maxDepth |-> Infinity, maxNodes |-> Infinity,
                  maxChildrenPerNode |-> Infinity]]

---------------------------------------------------------------------------
(* JSON values. *)

Min(a, b) == IF a < b THEN a ELSE b
Max(a, b) == IF a > b THEN a ELSE b

JNull == [t |-> "null", s |-> "null", kids |-> <<>>]
JNumber(n) == [t |-> "number", s |-> ToString(n), kids |-> <<>>]
JString(str) == [t |-> "string", s |-> str, kids |-> <<>>]
JBoolean(b) == [t |-> "boolean", s |-> IF b THEN "true" ELSE "false", kids |-> <<>>]

RECURSIVE IndexEntries(_)
IndexEntries(items) ==
    IF items = <<>> THEN <<>>
    ELSE Append(IndexEntries(SubSeq(items, 1, Len(items) - 1)),
                [k |-> ToString(Len(items) - 1), v |-> items[Len(items)]])

\* an array: its entries are keyed "0", "1", ... in index order
JArray(items) == [t |-> "array", s |-> "", kids |-> IndexEntries(items)]

\* an object: entries is a sequence of [k, v] in enumeration order
JObject(entries) == [t |-> "object", s |-> "", kids |-> entries]

KeyNames == <<"a", "b", "c", "d", "e", "f">>
KeyName(i) == IF i <= Len(KeyNames) THEN KeyNames[i] ELSE "k" \o ToString(i)

RECURSIVE NameEntries(_)
NameEntries(items) ==
    IF items = <<>> THEN <<>>
    ELSE Append(NameEntries(SubSeq(items, 1, Len(items) - 1)),
                [k |-> KeyName(Len(items)), v |-> items[Len(items)]])

\* the number of entries of a value, all nesting levels together
RECURSIVE Size(_)
Size(v) ==
    LET RECURSIVE Sum(_)
        Sum(i) == IF i = 0 THEN 0 ELSE Sum(i - 1) + 1 + Size(v.kids[i].v)
    IN Sum(Len(v.kids))

\* every value with at most n entries: the number 1, and every array and
\* object over every sequence of such values
RECURSIVE ValuesUpTo(_), ForestsUpTo(_)
ValuesUpTo(n) ==
    {JNumber(1)}
        \cup {JArray(f) : f \in ForestsUpTo(n)}
        \cup {JObject(NameEntries(f)) : f \in ForestsUpTo(n)}
ForestsUpTo(n) ==
    IF n = 0 THEN {<<>>}
    ELSE {<<>>} \cup
         UNION {{<<v>> \o r : r \in ForestsUpTo(n - 1 - Size(v))} :
                    v \in ValuesUpTo(n - 1)}

RECURSIVE Repeat(_, _)
Repeat(v, n) == IF n = 0 THEN <<>> ELSE Append(Repeat(v, n - 1), v)

\* {"a":1,"b":{"c":2}}
Scenario1Value ==
    JObject(<<[k |-> "a", v |-> JNumber(1)],
              [k |-> "b", v |-> JObject(<<[k |-> "c", v |-> JNumber(2)]>>)]>>)
\* an array of 50 numbers
Scenario2Value == JArray(Repeat(JNumber(7), 50))
\* {"a":{"b":1}}
Scenario3Value ==
    JObject(<<[k |-> "a", v |-> JObject(<<[k |-> "b", v |-> JNumber(1)]>>)]>>)
\* [[{},1,1],{}]
TallSiblingValue ==
    JArray(<<JArray(<<JObject(<<>>), JNumber(1), JNumber(1)>>), JObject(<<>>)>>)
\* [[[]],[[]]]: two entries of the root, each with an entry of its own
TwoBranchValue ==
    JArray(<<JArray(<<JArray(<<>>)>>), JArray(<<JArray(<<>>)>>)>>)
\* {"x y":[]}: a key that is no identifier
QuotedKeyValue == JObject(<<[k |-> "x y", v |-> JArray(<<>>)]>>)

PrimitiveValues ==
    {JNull, JNumber(0), JBoolean(TRUE), JString("s"),
     JString("0123456789012345678901234567890123456789012345678901234567890")}

InputValues ==
    ValuesUpTo(MaxEntries) \cup PrimitiveValues
        \cup {Scenario1Value, Scenario2Value, Scenario3Value,
              TallSiblingValue, TwoBranchValue, QuotedKeyValue}

\* a node limit that TwoBranchValue reaches on its second level
FourNodes ==
    [maxDepth |-> Infinity, maxNodes |-> 4, maxChildrenPerNode |-> Infinity]

InputOptions ==
    [maxDepth : (0 .. MaxDepthOpt) \cup {Infinity},
     maxNodes : (0 .. MaxNodesOpt) \cup {Infinity},
     maxChildrenPerNode : (0 .. MaxChildrenOpt) \cup {Infinity}]
        \cup {GRAPH_PRESETS.default, GRAPH_PRESETS.more, GRAPH_PRESETS.all,
              FourNodes}

---------------------------------------------------------------------------
(* The helpers of jsonGraph.ts. *)

\* a slip: typeof null is "object", and null is not tested first
jsonValueTypeByTypeof(value) ==
    IF value.t = "null" THEN "object" ELSE value.t

jsonValueType(value) == value.t

IsArray(value) == value.t = "array"
isPlainObject(value) == value.t = "object"
\* a slip: Array.isArray is left out
isContainerObjectsOnly(value) == isPlainObject(value)

isContainer(value) == IsArray(value) \/ isPlainObject(value)

\* Number.prototype.toLocaleString: digits grouped by three
RECURSIVE toLocaleString(_)
toLocaleString(n) ==
    IF n < 1000 THEN ToString(n)
    ELSE LET r == n % 1000
         IN toLocaleString(n \div 1000) \o ","
                \o (IF r < 10 THEN "00" ELSE IF r < 100 THEN "0" ELSE "")
                \o ToString(r)

\* JSON.stringify of a string without characters that need escaping
Stringify(str) == "\"" \o str \o "\""

\* a slip: containers fall through to Object.prototype.toString
jsonPreviewNoContainers(value) ==
    CASE value.t = "null" -> "null"
      [] value.t = "string" -> Stringify(value.s)
      [] value.t \in {"number", "boolean"} -> value.s
      [] value.t = "array" -> "[object Array]"
      [] OTHER -> "[object Object]"

jsonPreview(value) ==
    CASE value.t = "null" -> "null"
      [] value.t = "string" ->
            Stringify(IF Len(value.s) > PreviewMax
                      THEN SubSeq(value.s, 1, PreviewMax) \o Ellipsis
                      ELSE value.s)
      [] value.t \in {"number", "boolean"} -> value.s
      [] value.t = "array" -> "Array(" \o toLocaleString(Len(value.kids)) \o ")"
      [] OTHER -> "Object(" \o toLocaleString(Len(value.kids)) \o ")"

\* /^[A-Za-z_$][A-Za-z0-9_$]*$/ on the keys the inputs use
isIdentifierKey(key) == key \notin {"", "x y"}

jsonPathAppendIndex(path, i) == path \o "[" \o ToString(i) \o "]"
jsonPathAppend(path, key) ==
    IF isIdentifierKey(key) THEN path \o "." \o key
    ELSE path \o "[" \o Stringify(key) \o "]"

\* a slip: the counter is advanced before it is read (++nextId)
NodeIdPreIncrement(n) == "n" \o ToString(n + 1)

\* a slip: the counter is read and never advanced
NodeIdNoIncrement(n) == "n" \o ToString(0)

\* const id = `n${nextId++}`, for the counter value n
NodeId(n) == "n" \o ToString(n)

\* a slip: the child is given the depth of its parent
NewNodeAtParentDepth(id, label, path, value, depth) ==
    [id |-> NodeId(id), label |-> label, path |-> path,
     depth |-> IF depth = 0 THEN 0 ELSE depth - 1,
     type |-> jsonValueType(value), summary |-> jsonPreview(value),
     rows |-> <<>>]

\* the node pushNode creates when the counter is at id
NewNode(id, label, path, value, depth) ==
    [id |-> NodeId(id), label |-> label, path |-> path, depth |-> depth,
     type |-> jsonValueType(value), summary |-> jsonPreview(value),
     rows |-> <<>>]

\* nodesById.get(id): the position of the node in nodes, 0 if there is none
NodeIndex(id) ==
    IF \E k \in 1 .. Len(nodes) : nodes[k].id = id
    THEN CHOOSE k \in 1 .. Len(nodes) :
            nodes[k].id = id /\ \A j \in k + 1 .. Len(nodes) : nodes[j].id # id
    ELSE 0

---------------------------------------------------------------------------
(* buildJsonGraph. *)

maxDepth == options.maxDepth
maxNodes == options.maxNodes
maxChildrenPerNode == options.maxChildrenPerNode

\* layoutJsonGraph has not been called
EmptyMap == [id \in {} |-> id]
NoBounds == [minX |-> 0, minY |-> 0, maxX |-> 0, maxY |-> 0]
LayoutIdle ==
    /\ rects = EmptyMap
    /\ nextY = 0
    /\ visited = {}
    /\ stack = <<>>
    /\ bounds = NoBounds

\* no second invocation: a record of the shape of a suspended one
IdleCall ==
    [root |-> JNull, options |-> GRAPH_PRESETS.all, rootId |-> "",
     nodes |-> <<>>, edges |-> <<>>, truncated |-> FALSE, nextId |-> 0,
     queue |-> <<>>, current |-> <<>>, rows |-> <<>>, shown |-> 0,
     pc |-> "none", rects |-> EmptyMap, nextY |-> 0, visited |-> {},
     stack |-> <<>>, bounds |-> NoBounds]

\* nothing returned yet: a record of the shape of a graph with its layout
NoResult ==
    [rootId |-> "", nodes |-> <<>>, edges |-> <<>>, truncated |-> FALSE,
     rects |-> EmptyMap, bounds |-> NoBounds]

\* the hook before its first render is of no concern to the functions
NoHook == [input |-> "", inputGen |-> 0, parsedValue |-> <<>>, parsedGen |-> 0,
           graphPreset |-> "default", graph |-> <<>>, pastes |-> 0, files |-> 0]

\* one invocation, running alone
PairIdle ==
    /\ other = IdleCall
    /\ alone = NoResult
    /\ who = 0

\* the state at the head of the while loop, lines 79-114
Init ==
    /\ root \in InputValues
    /\ options \in InputOptions
    /\ rootId = NodeId(0)
    /\ nodes = <<NewNode(0, "$", "$", root, 0)>>
    /\ edges = <<>>
    /\ truncated = FALSE
    /\ nextId = 1
    /\ queue = <<[id |-> NodeId(0), value |-> root, path |-> "$", depth |-> 0]>>
    /\ current = <<>>
    /\ rows = <<>>
    /\ shown = 0
    /\ pc = "loop"
    /\ LayoutIdle
    /\ PairIdle
    /\ hook = NoHook

\* a slip: one entry more than maxChildrenPerNode is shown
VisibleOneMore(value) == Min(Len(value.kids), maxChildrenPerNode + 1)

\* const visible = Math.min(value.length, maxChildrenPerNode)
Visible(value) == Min(Len(value.kids), maxChildrenPerNode)

\* a slip: truncated = hit for if (hit) truncated = true
TruncateAssigned(hit) == hit

\* if (hit) truncated = true, lines 130, 151-156, 178-182, 202-207: the
\* flag after the test
Truncate(hit) == truncated \/ hit

\* a slip: the item is read with queue[0] and taken off the queue only
\* after the test that it is a container
QueueShiftAfterTest ==
    [item |-> Head(queue),
     rest |-> IF isContainer(Head(queue).value) THEN Tail(queue) ELSE queue]

\* a slip: queue.pop() for queue.shift()
QueuePop ==
    [item |-> queue[Len(queue)], rest |-> SubSeq(queue, 1, Len(queue) - 1)]

\* const current = queue.shift(): the item taken and the queue left
QueueShift == [item |-> Head(queue), rest |-> Tail(queue)]

\* queue.shift() and the tests before the two loops
Shift ==
    /\ pc = "loop"
    /\ queue # <<>>
    /\ queue' = QueueShift.rest
    /\ rows' = <<>>
    /\ shown' = 0
    /\ LET item == QueueShift.item
       IN IF NodeIndex(item.id) = 0 \/ ~isContainer(item.value)
          THEN /\ current' = <<>>
               /\ pc' = "loop"
               /\ truncated' = truncated
          ELSE /\ current' = <<item>>
               /\ IF IsArray(item.value)
                  THEN /\ pc' = "array"
                       /\ truncated' =
                            Truncate(Len(item.value.kids) > Visible(item.value))
                  ELSE /\ pc' = "object"
                       /\ truncated' = truncated
    /\ UNCHANGED <<root, options, rootId, nodes, edges, nextId>>
    /\ UNCHANGED layoutVars
    /\ UNCHANGED pairVars
    /\ UNCHANGED hook

\* a slip: the node count is not tested
ExpandsWithoutNodeLimit(childValue, depth) ==
    /\ isContainer(childValue)
    /\ depth < maxDepth

\* a slip: depth <= maxDepth for depth < maxDepth
ExpandsOneLevelMore(childValue, depth) ==
    /\ isContainer(childValue)
    /\ depth <= maxDepth
    /\ Len(nodes) < maxNodes

\* a slip: nodes.length <= maxNodes for nodes.length < maxNodes
ExpandsAtNodeLimit(childValue, depth) ==
    /\ isContainer(childValue)
    /\ depth < maxDepth
    /\ Len(nodes) <= maxNodes

\* isContainer(childValue) && depth < maxDepth && nodes.length < maxNodes
Expands(childValue, depth) ==
    /\ isContainer(childValue)
    /\ depth < maxDepth
    /\ Len(nodes) < maxNodes

\* a slip: only the depth limit sets truncated
BlockedByDepthOnly(childValue, depth) ==
    /\ isContainer(childValue)
    /\ depth >= maxDepth

\* isContainer(childValue) && (depth >= maxDepth || nodes.length >= maxNodes)
Blocked(childValue, depth) ==
    /\ isContainer(childValue)
    /\ (depth >= maxDepth \/ Len(nodes) >= maxNodes)

\* a slip: the index is read after the row is pushed
RowIndexAfterPush == Len(rows) + 1

\* const rowIndex = rows.length
RowIndex == Len(rows)

\* the body of both loops: the entry key -> childValue of the current item,
\* shown as rowKey, its child labelled label at childPath
Entry(rowKey, label, childPath, childValue) ==
    LET item == current[1]
        rowIndex == RowIndex
        childId == NodeId(nextId)
    IN IF Expands(childValue, item.depth)
       THEN /\ nodes' = Append(nodes, NewNode(nextId, label, childPath,
                                              childValue, item.depth + 1))
            /\ nextId' = nextId + 1
            /\ edges' = Append(edges, [from |-> item.id, to |-> childId,
                                       fromRow |-> rowIndex])
            /\ queue' = Append(queue, [id |-> childId, value |-> childValue,
                                       path |-> childPath,
                                       depth |-> item.depth + 1])
            /\ truncated' = truncated
            /\ rows' = Append(rows, [key |-> rowKey,
                                     value |-> jsonPreview(childValue),
                                     childId |-> childId])
       ELSE /\ truncated' = Truncate(Blocked(childValue, item.depth))
            /\ rows' = Append(rows, [key |-> rowKey,
                                     value |-> jsonPreview(childValue),
                                     childId |-> Undefined])
            /\ UNCHANGED <<nodes, nextId, edges, queue>>

\* one iteration of for (let i = 0; i < visible; i++)
ArrayEntry ==
    /\ pc = "array"
    /\ shown < Visible(current[1].value)
    /\ Entry(ToString(shown),
             "[" \o ToString(shown) \o "]",
             jsonPathAppendIndex(current[1].path, shown),
             current[1].value.kids[shown + 1].v)
    /\ shown' = shown + 1
    /\ UNCHANGED <<root, options, rootId, current, pc>>
    /\ UNCHANGED layoutVars
    /\ UNCHANGED pairVars
    /\ UNCHANGED hook

\* node.rows = rows
SetRows(id, newRows) ==
    [nodes EXCEPT ![NodeIndex(id)].rows = newRows]

\* the end of the array loop: the sentinel row, node.rows = rows, continue
ArrayDone ==
    /\ pc = "array"
    /\ shown >= Visible(current[1].value)
    /\ LET value == current[1].value
           visible == Visible(value)
           more == [key |-> Ellipsis,
                    value |-> "+" \o toLocaleString(Len(value.kids) - visible)
                                  \o MoreSuffix,
                    childId |-> Undefined]
       IN nodes' = SetRows(current[1].id,
                           IF Len(value.kids) > visible
                           THEN Append(rows, more) ELSE rows)
    /\ current' = <<>>
    /\ rows' = <<>>
    /\ shown' = 0
    /\ pc' = "loop"
    /\ UNCHANGED <<root, options, rootId, edges, truncated, nextId, queue>>
    /\ UNCHANGED layoutVars
    /\ UNCHANGED pairVars
    /\ UNCHANGED hook

\* one iteration of for (const key in value) that does not break
ObjectEntry ==
    /\ pc = "object"
    /\ shown < Len(current[1].value.kids)
    /\ shown < maxChildrenPerNode
    /\ LET entry == current[1].value.kids[shown + 1]
       IN Entry(entry.k, entry.k, jsonPathAppend(current[1].path, entry.k), entry.v)
    /\ shown' = shown + 1
    /\ UNCHANGED <<root, options, rootId, current, pc>>
    /\ UNCHANGED layoutVars
    /\ UNCHANGED pairVars
    /\ UNCHANGED hook

\* the end of the object loop, by exhaustion or by the break of a further
\* key at shown >= maxChildrenPerNode: the sentinel row, node.rows = rows
ObjectDone ==
    /\ pc = "object"
    /\ (shown >= Len(current[1].value.kids) \/ shown >= maxChildrenPerNode)
    /\ LET hasMore == shown < Len(current[1].value.kids)
           more == [key |-> Ellipsis, value |-> MoreFields, childId |-> Undefined]
       IN /\ truncated' = Truncate(hasMore)
          /\ nodes' = SetRows(current[1].id,
                              IF hasMore THEN Append(rows, more) ELSE rows)
    /\ current' = <<>>
    /\ rows' = <<>>
    /\ shown' = 0
    /\ pc' = "loop"
    /\ UNCHANGED <<root, options, rootId, edges, nextId, queue>>
    /\ UNCHANGED layoutVars
    /\ UNCHANGED pairVars
    /\ UNCHANGED hook

\* return { rootId, nodes, edges, truncated }
Return ==
    /\ pc = "loop"
    /\ queue = <<>>
    /\ pc' = "built"
    /\ UNCHANGED <<buildVars, graphVars, layoutVars>>
    /\ UNCHANGED pairVars
    /\ UNCHANGED hook

\* buildJsonGraph alone, each step taken as soon as it can be: the function
\* is synchronous and runs to completion
NextBuild ==
    \/ Shift
    \/ ArrayEntry
    \/ ArrayDone
    \/ ObjectEntry
    \/ ObjectDone
    \/ Return

SpecBuild == Init /\ [][NextBuild]_vars /\ WF_vars(NextBuild)

---------------------------------------------------------------------------
(* layoutJsonGraph.  A coordinate is held as a multiple of 1/Scale, so that *)
(* the halved sums of the centring are exact, as they are in the doubles   *)
(* of the source.                                                          *)

Scale == 2 ^ 10

nodeWidth == 280
headerHeight == 26
rowHeight == 18
paddingY == 10
xGap == 120
yGap == 26
padding == 28

\* the bucket of id in childrenByParent: its edges in the order of
\* a slip: the buckets are left in the order of graph.edges
SortNothing(es) == es

\* graph.edges, then sorted by fromRow (the sort is stable)
RECURSIVE SortByFromRow(_)
SortByFromRow(es) ==
    IF es = <<>> THEN <<>>
    ELSE LET last == es[Len(es)]
             init == SortByFromRow(SubSeq(es, 1, Len(es) - 1))
             keep == SelectSeq(init, LAMBDA e : e.fromRow <= last.fromRow)
             move == SelectSeq(init, LAMBDA e : e.fromRow > last.fromRow)
         IN keep \o <<last>> \o move
ChildrenByParent(id) ==
    SortByFromRow(SelectSeq(edges, LAMBDA e : e.from = id))

\* a slip: the header is left out of the height
measureNodeHeightNoHeader(node) ==
    (paddingY * 2 + Len(node.rows) * rowHeight) * Scale

measureNodeHeight(node) ==
    (paddingY * 2 + headerHeight + Len(node.rows) * rowHeight) * Scale

\* a slip: the gap between the columns is left out
ColumnXNoGap(depth) == (padding + depth * nodeWidth) * Scale

\* x: padding + depth * (nodeWidth + xGap)
ColumnX(depth) == (padding + depth * (nodeWidth + xGap)) * Scale

Rect(x, y, h) == [x |-> x, y |-> y, w |-> nodeWidth * Scale, h |-> h]

ZeroInfo == [top |-> 0, bottom |-> 0, center |-> 0]

RECURSIVE MinTop(_), MaxBottom(_)
MinTop(infos) ==
    IF Len(infos) = 1 THEN infos[1].top
    ELSE Min(infos[1].top, MinTop(Tail(infos)))
MaxBottom(infos) ==
    IF Len(infos) = 1 THEN infos[1].bottom
    ELSE Max(infos[1].bottom, MaxBottom(Tail(infos)))

\* lines 20-51 and 101-103: the maps, the cursor, and the call dfs(rootId, 0)
LayoutStart ==
    /\ pc = "built"
    /\ rects' = EmptyMap
    /\ nextY' = padding * Scale
    /\ visited' = {}
    /\ bounds' = NoBounds
    /\ IF Len(nodes) > 0
       THEN /\ stack' = <<[nodeId |-> rootId, depth |-> 0, entered |-> FALSE,
                           children |-> <<>>, childInfos |-> <<>>]>>
            /\ pc' = "dfs"
       ELSE /\ stack' = <<>>
            /\ pc' = "rest"
    /\ UNCHANGED <<buildVars, graphVars>>
    /\ UNCHANGED pairVars
    /\ UNCHANGED hook

\* return info from the innermost activation of dfs: to childInfos of its
\* caller, or back to layoutJsonGraph
DfsReturn(info) ==
    LET caller == Len(stack) - 1
    IN IF caller = 0
       THEN /\ stack' = <<>>
            /\ pc' = "rest"
       ELSE /\ stack' = [SubSeq(stack, 1, caller) EXCEPT
                            ![caller].childInfos = Append(@, info)]
            /\ pc' = "dfs"

\* a slip: the test of the visited set is left out
SkipsMissingOnly(nodeId) == NodeIndex(nodeId) = 0

\* if (!node) return ...; if (visited.has(nodeId)) return ..., lines 57-59
Skips(nodeId) == NodeIndex(nodeId) = 0 \/ nodeId \in visited

\* a slip: the cursor advances by the height alone
CursorAfterNoGap(h) == nextY + h

\* nextY += h + yGap, line 73
CursorAfter(h) == nextY + h + yGap * Scale

\* dfs, lines 57-75: the two guards, and the placement of a node without
\* outgoing edges at the cursor
DfsEnter ==
    /\ pc = "dfs"
    /\ ~stack[Len(stack)].entered
    /\ LET frame == stack[Len(stack)]
           nodeId == frame.nodeId
           children == ChildrenByParent(nodeId)
       IN IF Skips(nodeId)
          THEN /\ DfsReturn(ZeroInfo)
               /\ UNCHANGED <<rects, nextY, visited>>
          ELSE LET h == measureNodeHeight(nodes[NodeIndex(nodeId)])
                   y == nextY
               IN /\ visited' = visited \cup {nodeId}
                  /\ IF Len(children) = 0
                     THEN /\ rects' = (nodeId :> Rect(ColumnX(frame.depth), y, h))
                                          @@ rects
                          /\ nextY' = CursorAfter(h)
                          /\ DfsReturn([top |-> y, bottom |-> y + h,
                                        center |-> y + h \div 2])
                     ELSE /\ stack' = [stack EXCEPT
                                          ![Len(stack)].entered = TRUE,
                                          ![Len(stack)].children = children]
                          /\ pc' = "dfs"
                          /\ UNCHANGED <<rects, nextY>>
    /\ UNCHANGED <<buildVars, graphVars, bounds>>
    /\ UNCHANGED pairVars
    /\ UNCHANGED hook

\* dfs, lines 79-81: childInfos.push(dfs(edge.to, depth + 1)), the call
DfsChild ==
    /\ pc = "dfs"
    /\ stack[Len(stack)].entered
    /\ Len(stack[Len(stack)].childInfos) < Len(stack[Len(stack)].children)
    /\ LET frame == stack[Len(stack)]
           edge == frame.children[Len(frame.childInfos) + 1]
       IN stack' = Append(stack, [nodeId |-> edge.to, depth |-> frame.depth + 1,
                                  entered |-> FALSE, children |-> <<>>,
                                  childInfos |-> <<>>])
    /\ UNCHANGED <<buildVars, graphVars, pc, rects, nextY, visited, bounds>>
    /\ UNCHANGED pairVars
    /\ UNCHANGED hook

\* a slip: the node is centred on its first child alone
CenterOfFirst(first, last) == first.center

\* const center = (first.center + last.center) / 2, lines 85-86; first and
\* last are defined, children is not empty here
CenterOf(first, last) == (first.center + last.center) \div 2

\* dfs, lines 83-98: the placement of a node with outgoing edges
DfsPlace ==
    /\ pc = "dfs"
    /\ stack[Len(stack)].entered
    /\ Len(stack[Len(stack)].childInfos) = Len(stack[Len(stack)].children)
    /\ LET frame == stack[Len(stack)]
           nodeId == frame.nodeId
           h == measureNodeHeight(nodes[NodeIndex(nodeId)])
           first == frame.childInfos[1]
           last == frame.childInfos[Len(frame.childInfos)]
           center == CenterOf(first, last)
           y == center - h \div 2
       IN /\ rects' = (nodeId :> Rect(ColumnX(frame.depth), y, h)) @@ rects
          /\ DfsReturn([top |-> Min(y, MinTop(frame.childInfos)),
                        bottom |-> Max(y + h, MaxBottom(frame.childInfos)),
                        center |-> y + h \div 2])
    /\ UNCHANGED <<buildVars, graphVars, nextY, visited, bounds>>
    /\ UNCHANGED pairVars
    /\ UNCHANGED hook

\* a slip: the nodes the walk did not reach are left without a rectangle
StackRestNothing(st, k) == st

\* lines 105-110: the nodes the walk did not place, below the cursor;
\* st is [rects, nextY], k the next position in graph.nodes
RECURSIVE StackRest(_, _)
StackRest(st, k) ==
    IF k > Len(nodes) THEN st
    ELSE IF nodes[k].id \in DOMAIN st.rects THEN StackRest(st, k + 1)
    ELSE LET h == measureNodeHeight(nodes[k])
         IN StackRest([rects |-> (nodes[k].id :>
                                    Rect(padding * Scale, st.nextY, h)) @@ st.rects,
                       nextY |-> st.nextY + h + yGap * Scale],
                      k + 1)

SetMin(S) == CHOOSE x \in S : \A y \in S : x <= y
SetMax(S) == CHOOSE x \in S : \A y \in S : x >= y

\* lines 112-127
GraphBounds(rs) ==
    IF DOMAIN rs = {} THEN NoBounds
    ELSE [minX |-> SetMin({rs[id].x : id \in DOMAIN rs}),
          minY |-> SetMin({rs[id].y : id \in DOMAIN rs}),
          maxX |-> SetMax({rs[id].x + rs[id].w : id \in DOMAIN rs}),
          maxY |-> SetMax({rs[id].y + rs[id].h : id \in DOMAIN rs})]

\* lines 105-129: the rest of layoutJsonGraph after the walk
Finish ==
    /\ pc = "rest"
    /\ LET st == StackRest([rects |-> rects, nextY |-> nextY], 1)
       IN /\ rects' = st.rects
          /\ nextY' = st.nextY
          /\ bounds' = GraphBounds(st.rects)
    /\ pc' = "done"
    /\ UNCHANGED <<buildVars, graphVars, visited, stack>>
    /\ UNCHANGED pairVars
    /\ UNCHANGED hook

Next ==
    \/ Shift
    \/ ArrayEntry
    \/ ArrayDone
    \/ ObjectEntry
    \/ ObjectDone
    \/ Return
    \/ LayoutStart
    \/ DfsEnter
    \/ DfsChild
    \/ DfsPlace
    \/ Finish

Spec == Init /\ [][Next]_vars

---------------------------------------------------------------------------
(* layoutJsonGraph on any graph: the nodes, edges and rootId are an input  *)
(* that need not come from buildJsonGraph.                                 *)

\* graph.nodes has at most this many nodes, graph.edges this many edges
MaxGraphNodes == 2
MaxGraphEdges == 2

\* the ids n0 .. n<MaxGraphNodes>: the last one, at least, names no node
GraphIds == {NodeId(k) : k \in 0 .. MaxGraphNodes}

\* a node with n rows; the layout reads its id and the length of its rows
GraphNode(k, n) ==
    [id |-> NodeId(k), label |-> "x", path |-> "$", depth |-> 0,
     type |-> "object", summary |-> "Object(0)",
     rows |-> Repeat([key |-> "k", value |-> "1", childId |-> Undefined], n)]

RowCounts == {0, 3}

InputNodeLists ==
    UNION {{[k \in 1 .. n |-> GraphNode(k - 1, c[k])] : c \in [1 .. n -> RowCounts]} :
               n \in 0 .. MaxGraphNodes}

\* a root of three rows, a node without rows to be its only child, and a
\* node without rows more
TallRootNodes == <<GraphNode(0, 3), GraphNode(1, 0), GraphNode(2, 0)>>

SeqsUpTo(S, n) == UNION {[1 .. m -> S] : m \in 0 .. n}

InputEdgeLists(ns) ==
    SeqsUpTo([from : {ns[k].id : k \in 1 .. Len(ns)}, to : GraphIds,
              fromRow : {0, 1}],
             MaxGraphEdges)

InitLayout ==
    /\ root = JNull
    /\ options = GRAPH_PRESETS.all
    /\ nextId = 0
    /\ queue = <<>>
    /\ current = <<>>
    /\ rows = <<>>
    /\ shown = 0
    /\ truncated = FALSE
    /\ nodes \in InputNodeLists \cup {TallRootNodes}
    /\ edges \in InputEdgeLists(nodes)
    /\ rootId \in GraphIds
    /\ pc = "built"
    /\ LayoutIdle
    /\ PairIdle
    /\ hook = NoHook

NextLayout ==
    \/ LayoutStart
    \/ DfsEnter
    \/ DfsChild
    \/ DfsPlace
    \/ Finish

SpecLayout == InitLayout /\ [][NextLayout]_vars

---------------------------------------------------------------------------
(* Two invocations whose steps interleave. Everything an invocation reads   *)
(* and writes after its arguments is declared inside the function body:    *)
(* nodes, edges, truncated, nextId and queue in buildJsonGraph, rects,      *)
(* nodesById, childrenByParent, nextY and visited in layoutJsonGraph. The   *)
(* variables above are the invocation that is running, other is the one    *)
(* that is suspended.                                                      *)

\* the entries of the values of the two invocations
MaxPairEntries == 1

\* values with two containers and more, so that ids are handed out and the
\* queue and the walk are not trivial
PairValues ==
    {v \in ValuesUpTo(MaxPairEntries) : Len(v.kids) > 0}
        \cup {JArray(<<JArray(<<JObject(<<>>)>>), JObject(<<>>)>>)}

PairOptions ==
    {GRAPH_PRESETS.all,
     [maxDepth |-> 1, maxNodes |-> 2, maxChildrenPerNode |-> 1]}

\* the locals of the running invocation
Locals ==
    [root |-> root, options |-> options, rootId |-> rootId, nodes |-> nodes,
     edges |-> edges, truncated |-> truncated, nextId |-> nextId,
     queue |-> queue, current |-> current, rows |-> rows, shown |-> shown,
     pc |-> pc, rects |-> rects, nextY |-> nextY, visited |-> visited,
     stack |-> stack, bounds |-> bounds]

\* the locals of an invocation on value with opts at the head of the while
\* loop, lines 79-114
Start(value, opts) ==
    [root |-> value, options |-> opts, rootId |-> NodeId(0),
     nodes |-> <<NewNode(0, "$", "$", value, 0)>>,
     edges |-> <<>>, truncated |-> FALSE, nextId |-> 1,
     queue |-> <<[id |-> NodeId(0), value |-> value, path |-> "$", depth |-> 0]>>,
     current |-> <<>>, rows |-> <<>>, shown |-> 0, pc |-> "loop",
     rects |-> EmptyMap, nextY |-> 0, visited |-> {}, stack |-> <<>>,
     bounds |-> NoBounds]

\* the invocation c goes on
Load(c) ==
    /\ root' = c.root
    /\ options' = c.options
    /\ rootId' = c.rootId
    /\ nodes' = c.nodes
    /\ edges' = c.edges
    /\ truncated' = c.truncated
    /\ nextId' = c.nextId
    /\ queue' = c.queue
    /\ current' = c.current
    /\ rows' = c.rows
    /\ shown' = c.shown
    /\ pc' = c.pc
    /\ rects' = c.rects
    /\ nextY' = c.nextY
    /\ visited' = c.visited
    /\ stack' = c.stack
    /\ bounds' = c.bounds

\* what an invocation returned: the graph and its layout
Result(c) ==
    [rootId |-> c.rootId, nodes |-> c.nodes, edges |-> c.edges,
     truncated |-> c.truncated, rects |-> c.rects, bounds |-> c.bounds]

\* a slip: let nextId = 0 at module level, one counter for all invocations
ResumedSharedCounter == [other EXCEPT !.nextId = nextId]

\* what the suspended invocation finds when it goes on: its own locals,
\* the counter of line 85 among them
Resumed == other

InitPair ==
    /\ \E value \in PairValues, opts \in PairOptions :
          /\ root = value
          /\ options = opts
          /\ rootId = Start(value, opts).rootId
          /\ nodes = Start(value, opts).nodes
          /\ queue = Start(value, opts).queue
    /\ edges = <<>>
    /\ truncated = FALSE
    /\ nextId = 1
    /\ current = <<>>
    /\ rows = <<>>
    /\ shown = 0
    /\ pc = "loop"
    /\ LayoutIdle
    /\ PairIdle
    /\ hook = NoHook

\* the first invocation has returned alone: it is invoked again on the same
\* arguments, and a second invocation is made
Fork ==
    /\ who = 0
    /\ pc = "done"
    /\ alone' = Result(Locals)
    /\ \E value \in PairValues, opts \in PairOptions :
          other' = Start(value, opts)
    /\ Load(Start(root, options))
    /\ who' = 1
    /\ UNCHANGED hook

\* the running invocation is suspended and the other one goes on
Switch ==
    /\ who \in {1, 2}
    /\ other.pc # "done"
    /\ other' = Locals
    /\ Load(Resumed)
    /\ who' = 3 - who
    /\ alone' = alone
    /\ UNCHANGED hook

NextPair ==
    \/ Shift
    \/ ArrayEntry
    \/ ArrayDone
    \/ ObjectEntry
    \/ ObjectDone
    \/ Return
    \/ LayoutStart
    \/ DfsEnter
    \/ DfsChild
    \/ DfsPlace
    \/ Finish
    \/ Fork
    \/ Switch

SpecPair == InitPair /\ [][NextPair]_vars

---------------------------------------------------------------------------
(* layoutJsonGraph on a built graph whose edges come in another order: the  *)
(* loop of line 37 reads graph.edges in the order the caller passes them.  *)

RECURSIVE Reverse(_)
Reverse(s) == IF s = <<>> THEN <<>> ELSE Append(Reverse(Tail(s)), Head(s))

\* the first edge moved to the end
Rotate(s) == Append(Tail(s), Head(s))

\* the caller passes the edges of the built graph reversed or rotated;
\* repeated, this gives more orders
Reorder ==
    /\ pc = "built"
    /\ Len(edges) >= 2
    /\ edges' \in {Reverse(edges), Rotate(edges)}
    /\ UNCHANGED <<root, options, rootId, nodes, truncated, nextId, queue,
                   current, rows, shown, pc>>
    /\ UNCHANGED layoutVars
    /\ UNCHANGED pairVars
    /\ UNCHANGED hook

NextReordered ==
    \/ Shift
    \/ ArrayEntry
    \/ ArrayDone
    \/ ObjectEntry
    \/ ObjectDone
    \/ Return
    \/ Reorder
    \/ LayoutStart
    \/ DfsEnter
    \/ DfsChild
    \/ DfsPlace
    \/ Finish

SpecReordered == Init /\ [][NextReordered]_vars

\* layoutJsonGraph alone, each step taken as soon as it can be: the
\* function is synchronous and runs to completion
\* of graphs whose nodes have no rows: rows decide the heights alone, and
\* not which steps the walk takes
InitLayoutRun ==
    /\ InitLayout
    /\ \A k \in 1 .. Len(nodes) : nodes[k].rows = <<>>

SpecLayoutRun == InitLayoutRun /\ [][NextLayout]_vars /\ WF_vars(NextLayout)

---------------------------------------------------------------------------
(* useJsonFormatterState: the state that decides the graph. hook is the     *)
(* state a render sees: input, parsedValue, graphPreset, and graph, the    *)
(* value of the useMemo of lines 72-75. A handler, or the part of an async *)
(* handler after its await, runs to its end and the render that follows    *)
(* sees all its set calls together. parsedValue and graph are <<>> for     *)
(* undefined and null, else <<v>>. inputGen counts the replacements of the *)
(* input text and parsedGen is inputGen as it was when parsedValue was     *)
(* parsed; the code has neither. jsonUtils is not among the sources: the   *)
(* outcome of parsing a text is any value, or a throw.                     *)

\* the input text is replaced at most this many times
MaxEdits == 2
\* at most this many reads of the clipboard, and of files, are awaited
MaxPending == 1

HookTexts == {"", "1", "[1]", "{"}
HookValues == {JNull, JNumber(1), JArray(<<JNumber(1)>>)}
HookPresets == {"default", "more", "all"}

\* parseOrThrow, lines 88-94: <<>> for a throw, else the value
ParseOutcomes == {<<>>} \cup {<<v>> : v \in HookValues}

\* the result of buildJsonGraph(parsedValue, graphOptions), named by its
\* arguments
GraphOf(value, preset) == [root |-> value, options |-> GRAPH_PRESETS[preset]]

\* const graph = useMemo(...), lines 72-75, for the state h
Render(h) ==
    [h EXCEPT !.graph = IF h.parsedValue = <<>> THEN <<>>
                        ELSE <<GraphOf(h.parsedValue[1], h.graphPreset)>>]

\* setParsedValue of the outcome o of a parse of the input
Parsed(o) ==
    [hook EXCEPT !.parsedValue = o,
                 !.parsedGen = IF o = <<>> THEN @ ELSE hook.inputGen]

\* a slip: setParsedValue(undefined) is left out after setInput(text)
InputSetOnly(text) ==
    [hook EXCEPT !.input = text, !.inputGen = @ + 1]

\* setInput(text) ... setParsedValue(undefined), lines 271-275 and 295-299
InputLoaded(text) ==
    [hook EXCEPT !.input = text, !.inputGen = @ + 1, !.parsedValue = <<>>]

coreVars == <<root, options, rootId, nodes, edges, truncated, nextId, queue,
              current, rows, shown, pc, rects, nextY, visited, stack, bounds,
              other, alone, who>>

InitHook ==
    /\ root = JNull
    /\ options = GRAPH_PRESETS.default
    /\ rootId = ""
    /\ nodes = <<>>
    /\ edges = <<>>
    /\ truncated = FALSE
    /\ nextId = 0
    /\ queue = <<>>
    /\ current = <<>>
    /\ rows = <<>>
    /\ shown = 0
    /\ pc = "hook"
    /\ LayoutIdle
    /\ PairIdle
    /\ hook = Render(NoHook)

\* actions.updateInput(next), lines 361-367
UpdateInput ==
    /\ pc = "hook"
    /\ hook.inputGen < MaxEdits
    /\ \E next \in HookTexts :
          hook' = Render([hook EXCEPT !.input = next, !.inputGen = @ + 1,
                                      !.parsedValue = <<>>])
    /\ UNCHANGED coreVars

\* handleFormatOrMinify, lines 118-149
HandleFormatOrMinify ==
    /\ pc = "hook"
    /\ \E o \in ParseOutcomes : hook' = Render(Parsed(o))
    /\ UNCHANGED coreVars

\* handleValidate, lines 151-171
HandleValidate ==
    /\ pc = "hook"
    /\ \E o \in ParseOutcomes : hook' = Render(Parsed(o))
    /\ UNCHANGED coreVars

\* handleEscape, lines 174-198
HandleEscape ==
    /\ pc = "hook"
    /\ hook' = Render([hook EXCEPT !.parsedValue = <<>>])
    /\ UNCHANGED coreVars

\* handleUnescape, lines 200-230: the unescaped input is parsed
HandleUnescape ==
    /\ pc = "hook"
    /\ \E o \in ParseOutcomes : hook' = Render(Parsed(o))
    /\ UNCHANGED coreVars

\* handleClear, lines 232-243
HandleClear ==
    /\ pc = "hook"
    /\ hook.inputGen < MaxEdits
    /\ hook' = Render([hook EXCEPT !.input = "", !.inputGen = @ + 1,
                                   !.parsedValue = <<>>])
    /\ UNCHANGED coreVars

\* actions.setGraphPreset(next), lines 374-376
SetGraphPreset ==
    /\ pc = "hook"
    /\ \E next \in HookPresets : hook' = Render([hook EXCEPT !.graphPreset = next])
    /\ UNCHANGED coreVars

\* handlePasteFromClipboard up to its await, lines 265-270
PasteStart ==
    /\ pc = "hook"
    /\ hook.pastes < MaxPending
    /\ hook' = Render([hook EXCEPT !.pastes = @ + 1])
    /\ UNCHANGED coreVars

\* handlePasteFromClipboard after its await, lines 270-286: the text read,
\* or the catch
PasteDone ==
    /\ pc = "hook"
    /\ hook.pastes > 0
    /\ \E ok \in BOOLEAN, text \in HookTexts :
          IF ok /\ hook.inputGen < MaxEdits
          THEN hook' = Render([InputLoaded(text) EXCEPT !.pastes = @ - 1])
          ELSE hook' = Render([hook EXCEPT !.pastes = @ - 1])
    /\ UNCHANGED coreVars

\* handleFileLoaded up to its await, lines 289-294
FileStart ==
    /\ pc = "hook"
    /\ hook.files < MaxPending
    /\ hook' = Render([hook EXCEPT !.files = @ + 1])
    /\ UNCHANGED coreVars

\* handleFileLoaded after its await, lines 294-306
FileDone ==
    /\ pc = "hook"
    /\ hook.files > 0
    /\ \E ok \in BOOLEAN, text \in HookTexts :
          IF ok /\ hook.inputGen < MaxEdits
          THEN hook' = Render([InputLoaded(text) EXCEPT !.files = @ - 1])
          ELSE hook' = Render([hook EXCEPT !.files = @ - 1])
    /\ UNCHANGED coreVars

NextHook ==
    \/ UpdateInput
    \/ HandleFormatOrMinify
    \/ HandleValidate
    \/ HandleEscape
    \/ HandleUnescape
    \/ HandleClear
    \/ SetGraphPreset
    \/ PasteStart
    \/ PasteDone
    \/ FileStart
    \/ FileDone

SpecHook == InitHook /\ [][NextHook]_vars

---------------------------------------------------------------------------
(* The vocabulary of the properties. *)

Ids == {nodes[k].id : k \in 1 .. Len(nodes)}
Positions == 1 .. Len(nodes)
EdgeSet == {edges[k] : k \in 1 .. Len(edges)}

\* buildJsonGraph has returned its graph
Built == pc = "built"
\* layoutJsonGraph has returned its layout
LaidOut == pc = "done"

\* the value a node of the returned graph stands for: the root value for the
\* root, else the entry of the parent's value that the incoming edge names
RECURSIVE ValueOf(_)
ValueOf(id) ==
    IF id = rootId \/ ~\E e \in EdgeSet : e.to = id THEN root
    ELSE LET e == CHOOSE e \in EdgeSet : e.to = id
         IN ValueOf(e.from).kids[e.fromRow + 1].v

EntriesOf(k) == ValueOf(nodes[k].id).kids
VisibleCount(k) == Min(Len(EntriesOf(k)), maxChildrenPerNode)

\* node k has more entries than maxChildrenPerNode
OverLimit(k) == Len(EntriesOf(k)) > maxChildrenPerNode
\* a visible container-valued entry of node k has no child node
SkippedChild(k) ==
    \E i \in 1 .. VisibleCount(k) :
        /\ isContainer(EntriesOf(k)[i].v)
        /\ i <= Len(nodes[k].rows)
        /\ nodes[k].rows[i].childId = Undefined
\* node k ends with a sentinel row
HasSentinel(k) ==
    /\ Len(nodes[k].rows) = VisibleCount(k) + 1
    /\ nodes[k].rows[Len(nodes[k].rows)].key = Ellipsis
    /\ nodes[k].rows[Len(nodes[k].rows)].childId = Undefined

---------------------------------------------------------------------------
(* C1 *)

\* C1: the returned graph has truncated = TRUE exactly when some expanded
\* container has more entries than maxChildrenPerNode or some visible
\* container-valued entry has a row without childId; so a graph with
\* truncated = FALSE has no such row and no sentinel row.
C1_TruncatedIff ==
    Built =>
        /\ truncated = (\E k \in Positions : OverLimit(k) \/ SkippedChild(k))
        /\ ~truncated =>
              \A k \in Positions : ~SkippedChild(k) /\ ~HasSentinel(k)

\* a graph truncated by the node limit alone: no container is over
\* maxChildrenPerNode, the depth limit is off, an entry was skipped
C1_Witness ==
    /\ Built
    /\ truncated
    /\ maxDepth = Infinity
    /\ \A k \in Positions : ~OverLimit(k)
    /\ \E k \in Positions : SkippedChild(k)

---------------------------------------------------------------------------
(* C2 *)

\* C2, as claimed: the returned graph has nodes.length <= maxNodes, for
\* every maxNodes, 0 included.
C2_NodesWithinMaxNodes == Built => Len(nodes) <= maxNodes

\* C2, amended: the root node is always created, so the returned graph has
\* nodes.length <= max(maxNodes, 1).
C2_NodesWithinMaxNodesOrRoot == Built => Len(nodes) <= Max(maxNodes, 1)

\* the node limit was reached exactly and kept a container from expanding
C2_Witness ==
    /\ Built
    /\ maxNodes = 2
    /\ Len(nodes) = 2
    /\ \E k \in Positions : SkippedChild(k)

---------------------------------------------------------------------------
(* C3, C4 *)

RectOf(id) == rects[id]

\* C3, as claimed: in the layout of a built graph, for two children A, B of
\* one node with A before B in fromRow order, A.y + A.h <= B.y.
C3_SiblingsDoNotOverlap ==
    LaidOut =>
        \A a, b \in EdgeSet :
            (a.from = b.from /\ a.fromRow < b.fromRow) =>
                RectOf(a.to).y + RectOf(a.to).h <= RectOf(b.to).y

\* the interiors of the rectangles of a and b intersect
Overlap(a, b) ==
    /\ a.x < b.x + b.w
    /\ b.x < a.x + a.w
    /\ a.y < b.y + b.h
    /\ b.y < a.y + a.h

\* C4, as claimed: in the layout of a built graph no two distinct nodes have
\* rectangles whose interiors intersect.
C4_NoTwoRectsOverlap ==
    LaidOut =>
        \A a, b \in Ids : a # b => ~Overlap(RectOf(a), RectOf(b))

---------------------------------------------------------------------------
(* C5 *)

\* C5: for any input graph the keys of rects are exactly the ids of
\* graph.nodes.
C5_RectPerNode == LaidOut => DOMAIN rects = Ids

\* a laid out graph whose rootId names no node, with a node the walk never
\* reached and an edge to an id that names no node
C5_Witness ==
    /\ LaidOut
    /\ rootId \notin Ids
    /\ Ids \ visited # {}
    /\ \E e \in EdgeSet : e.to \notin Ids

\* the walk followed an edge to a missing node and left a node unreached
C5_WitnessWalk ==
    /\ LaidOut
    /\ rootId \in Ids
    /\ Ids \ visited # {}
    /\ \E e \in EdgeSet : e.from \in visited /\ e.to \notin Ids

---------------------------------------------------------------------------
(* C6 *)

\* C6: in the returned graph both ends of every edge name nodes of nodes,
\* and the depth of the to node is the depth of the from node plus 1.
C6_EdgesJoinDepths ==
    Built =>
        \A e \in EdgeSet :
            /\ e.from \in Ids
            /\ e.to \in Ids
            /\ nodes[NodeIndex(e.to)].depth = nodes[NodeIndex(e.from)].depth + 1

\* a returned graph with an edge between depths 1 and 2
C6_Witness ==
    /\ Built
    /\ \E e \in EdgeSet : nodes[NodeIndex(e.from)].depth = 1

---------------------------------------------------------------------------
(* C7 *)

\* C7: in the returned graph the k-th node (from 0) has the id numbered k,
\* so the ids are pairwise distinct, and rootId names the first node.
C7_IdsInDiscoveryOrder ==
    Built =>
        /\ \A k \in Positions : nodes[k].id = "n" \o ToString(k - 1)
        /\ \A j, k \in Positions : j # k => nodes[j].id # nodes[k].id
        /\ rootId = nodes[1].id
        /\ rootId = "n0"

\* a returned graph of three nodes or more
C7_Witness == Built /\ Len(nodes) >= 3

---------------------------------------------------------------------------
(* C8 *)

\* the root value has a container among its first maxChildrenPerNode entries
RootHasVisibleContainer ==
    \E i \in 1 .. Min(Len(root.kids), maxChildrenPerNode) :
        isContainer(root.kids[i].v)

\* C8: every node but the root has depth <= maxDepth; with maxDepth = 0 the
\* graph is the root alone, without edges, and truncated is TRUE when the
\* root has a visible container-valued entry.
C8_DepthWithinMaxDepth ==
    Built =>
        /\ \A k \in Positions : k > 1 => nodes[k].depth <= maxDepth
        /\ maxDepth = 0 =>
              /\ Len(nodes) = 1
              /\ edges = <<>>
              /\ RootHasVisibleContainer => truncated

\* Scenario 3 and its like: maxDepth = 0 and a container under the root
C8_Witness ==
    /\ Built
    /\ maxDepth = 0
    /\ RootHasVisibleContainer
    /\ maxNodes = Infinity

---------------------------------------------------------------------------
(* C9 *)

Scenario1 == root = Scenario1Value /\ options = GRAPH_PRESETS.all

Scenario1RootRows ==
    <<[key |-> "a", value |-> "1", childId |-> Undefined],
      [key |-> "b", value |-> "Object(1)", childId |-> nodes[2].id]>>

\* C9, as claimed: {"a":1,"b":{"c":2}} without limits gives 3 nodes (the
\* root, one for "b", one for "c"), 2 edges, and the root rows a -> "1"
\* without childId, b -> "Object(1)" with the id of the node of b.
C9_Scenario1ThreeNodes ==
    (Built /\ Scenario1) =>
        /\ Len(nodes) = 3
        /\ Len(edges) = 2
        /\ nodes[1].rows = Scenario1RootRows

\* C9, amended: {"a":1,"b":{"c":2}} without limits gives 2 nodes (the root
\* "$" and a node for "b"; the number under "c" is a row of that node, not
\* a node), 1 edge, and the root rows as claimed.
C9_Scenario1TwoNodes ==
    (Built /\ Scenario1) =>
        /\ Len(nodes) = 2
        /\ nodes[1].label = "$"
        /\ nodes[2].label = "b"
        /\ nodes[2].path = "$.b"
        /\ edges = <<[from |-> nodes[1].id, to |-> nodes[2].id, fromRow |-> 1]>>
        /\ nodes[1].rows = Scenario1RootRows
        /\ nodes[2].rows = <<[key |-> "c", value |-> "2", childId |-> Undefined]>>
        /\ ~truncated

C9_Witness == Built /\ Scenario1

---------------------------------------------------------------------------
(* C10 *)

Scenario2 == root = Scenario2Value /\ maxChildrenPerNode = 30

C10_WitnessObject ==
    /\ Built
    /\ \E k \in Positions :
          /\ nodes[k].type = "object"
          /\ OverLimit(k)
          /\ VisibleCount(k) >= 1

---------------------------------------------------------------------------
(* C11 *)

\* C11, as claimed: every expanded container with more entries than
\* maxChildrenPerNode, array or object, ends with a sentinel row whose value
\* reports the count K = (number of entries) - maxChildrenPerNode.
C11_SentinelReportsCount ==
    Built =>
        \A k \in Positions :
            OverLimit(k) =>
                /\ HasSentinel(k)
                /\ nodes[k].rows[Len(nodes[k].rows)].value =
                       "+" \o ToString(Len(EntriesOf(k)) - maxChildrenPerNode)
                           \o MoreSuffix

\* what holds of the code: the sentinel row of an array reports the count
C11_ArraySentinelReportsCount ==
    Built =>
        \A k \in Positions :
            (OverLimit(k) /\ nodes[k].type = "array") =>
                /\ HasSentinel(k)
                /\ nodes[k].rows[Len(nodes[k].rows)].value =
                       "+" \o ToString(Len(EntriesOf(k)) - maxChildrenPerNode)
                           \o MoreSuffix

---------------------------------------------------------------------------
(* C12 *)

PrimitiveRoot == root.t \in {"string", "number", "boolean", "null"}

\* C12: for a primitive root and any options the returned graph is one node
\* labelled "$" at depth 0, of the type of the primitive, without rows,
\* without edges, truncated = FALSE; for null, type null and summary "null".
C12_PrimitiveRootAlone ==
    (Built /\ PrimitiveRoot) =>
        /\ Len(nodes) = 1
        /\ nodes[1].label = "$"
        /\ nodes[1].depth = 0
        /\ nodes[1].type = root.t
        /\ nodes[1].rows = <<>>
        /\ edges = <<>>
        /\ ~truncated
        /\ root.t = "null" =>
              nodes[1].type = "null" /\ nodes[1].summary = "null"

\* Scenario 4 under the tightest options
C12_Witness ==
    /\ Built
    /\ root = JNull
    /\ maxNodes = 0
    /\ maxDepth = 0
    /\ maxChildrenPerNode = 0

---------------------------------------------------------------------------
(* C14 *)

\* C14: every rectangle has the width nodeWidth and the height
\* 46 + 18 * (number of rows), so of two nodes the one with more rows is
\* strictly taller.
C14_HeightByRows ==
    LaidOut =>
        /\ \A k \in Positions :
              /\ RectOf(nodes[k].id).w = 280 * Scale
              /\ RectOf(nodes[k].id).h = (46 + 18 * Len(nodes[k].rows)) * Scale
        /\ \A j, k \in Positions :
              Len(nodes[j].rows) > Len(nodes[k].rows) =>
                  RectOf(nodes[j].id).h > RectOf(nodes[k].id).h

\* a layout with two nodes of different row counts
C14_Witness ==
    /\ LaidOut
    /\ \E j, k \in Positions : Len(nodes[j].rows) > Len(nodes[k].rows)

---------------------------------------------------------------------------
(* C13 *)

\* C13: for every input value and every option triple buildJsonGraph ends:
\* the queue empties and the graph is returned.
C13_BuildReturns == <>(Built /\ queue = <<>> /\ current = <<>>)

\* a container with entries, returned under options that are all 0
C13_Witness ==
    /\ Built
    /\ Len(root.kids) > 0
    /\ maxDepth = 0
    /\ maxNodes = 0
    /\ maxChildrenPerNode = 0

\* an empty container, returned
C13_WitnessEmpty == Built /\ isContainer(root) /\ root.kids = <<>>

---------------------------------------------------------------------------
(* C16 *)

Unbounded == options = GRAPH_PRESETS.all

IsContainerValue(v) == v.t \in {"object", "array"}

\* the number of objects and arrays in v, v itself included
RECURSIVE CountContainers(_)
CountContainers(v) ==
    LET RECURSIVE Sum(_)
        Sum(i) == IF i = 0 THEN 0 ELSE Sum(i - 1) + CountContainers(v.kids[i].v)
    IN (IF IsContainerValue(v) THEN 1 ELSE 0) + Sum(Len(v.kids))

\* C16: without limits the nodes are the containers of the input, one node
\* each (and the root alone if it is primitive): every container-valued
\* entry has a row with a childId whose node stands for that entry, every
\* scalar entry a row without; edges.length = nodes.length - 1; there is no
\* sentinel row and truncated = FALSE.
C16_UnboundedIsFaithful ==
    (Built /\ Unbounded) =>
        /\ Len(nodes) = CountContainers(root) + (IF IsContainerValue(root) THEN 0 ELSE 1)
        /\ Len(edges) = Len(nodes) - 1
        /\ \A k \in Positions :
              /\ Len(nodes[k].rows) = Len(EntriesOf(k))
              /\ nodes[k].type = ValueOf(nodes[k].id).t
              /\ \A i \in 1 .. Len(nodes[k].rows) :
                    IF IsContainerValue(EntriesOf(k)[i].v)
                    THEN /\ nodes[k].rows[i].childId \in Ids
                         /\ [from |-> nodes[k].id, to |-> nodes[k].rows[i].childId,
                             fromRow |-> i - 1] \in EdgeSet
                    ELSE /\ nodes[k].rows[i].childId = Undefined
                         /\ ~\E e \in EdgeSet :
                               e.from = nodes[k].id /\ e.fromRow = i - 1
        /\ ~truncated

\* a value with a nested container and a scalar entry, built without limits
C16_Witness ==
    /\ Built
    /\ Unbounded
    /\ CountContainers(root) >= 3
    /\ \E i \in 1 .. Len(root.kids) : ~IsContainerValue(root.kids[i].v)

---------------------------------------------------------------------------
(* C17 *)

\* the positions in edges of the edges from row i (from 1) of node k to id
EdgesOfRow(k, i, id) ==
    {j \in 1 .. Len(edges) :
        edges[j] = [from |-> nodes[k].id, to |-> id, fromRow |-> i - 1]}

\* C17: in the returned graph every edge leaves an existing row of its from
\* node whose childId is the to node; every row with a childId has exactly
\* one such edge, and no other edge leaves it; a sentinel row has no childId
\* and no edge.
C17_EdgesMatchRows ==
    Built =>
        /\ \A e \in EdgeSet :
              /\ e.from \in Ids
              /\ e.fromRow + 1 \in 1 .. Len(nodes[NodeIndex(e.from)].rows)
              /\ nodes[NodeIndex(e.from)].rows[e.fromRow + 1].childId = e.to
        /\ \A k \in Positions : \A i \in 1 .. Len(nodes[k].rows) :
              LET row == nodes[k].rows[i]
                  leaving == {j \in 1 .. Len(edges) :
                                 edges[j].from = nodes[k].id /\ edges[j].fromRow = i - 1}
              IN IF row.childId # Undefined
                 THEN /\ Cardinality(EdgesOfRow(k, i, row.childId)) = 1
                      /\ leaving = EdgesOfRow(k, i, row.childId)
                 ELSE leaving = {}
        /\ \A k \in Positions :
              OverLimit(k) =>
                 /\ HasSentinel(k)
                 /\ ~\E e \in EdgeSet :
                       e.from = nodes[k].id /\ e.fromRow = Len(nodes[k].rows) - 1

\* a node with a child row after a scalar row, cut by a sentinel row
C17_Witness ==
    /\ Built
    /\ \E k \in Positions :
          /\ OverLimit(k)
          /\ \E i \in 1 .. Len(nodes[k].rows) : nodes[k].rows[i].childId # Undefined

\* an edge that leaves a row other than the first
C17_WitnessLaterRow == Built /\ \E e \in EdgeSet : e.fromRow > 0

---------------------------------------------------------------------------
(* C18 *)

\* a step of one of the two loops that records the row of an entry
EntryStep == pc \in {"array", "object"} /\ Len(rows') = Len(rows) + 1

\* C18: when the row of a visible container-valued entry of a node at depth
\* d is recorded, a child node is created, at depth d + 1 and named by the
\* row's childId, if and only if d + 1 <= maxDepth and the number of nodes
\* created so far is strictly less than maxNodes; otherwise no node is
\* created and the row has no childId.
C18_ChildIffWithinLimits ==
    [][EntryStep =>
         LET value == current[1].value.kids[shown + 1].v
             d == nodes[NodeIndex(current[1].id)].depth
             row == rows'[Len(rows')]
         IN IsContainerValue(value) =>
              IF d + 1 <= maxDepth /\ Len(nodes) < maxNodes
              THEN /\ Len(nodes') = Len(nodes) + 1
                   /\ nodes'[Len(nodes')].depth = d + 1
                   /\ row.childId = nodes'[Len(nodes')].id
                   /\ row.childId # Undefined
              ELSE /\ nodes' = nodes
                   /\ row.childId = Undefined]_vars

\* a node whose first container-valued entry got a child and whose second,
\* within the depth limit, did not: the node count had reached maxNodes
C18_Witness ==
    /\ Built
    /\ \E k \in Positions : \E i, j \in 1 .. VisibleCount(k) :
          /\ i < j
          /\ nodes[k].depth + 1 <= maxDepth
          /\ IsContainerValue(EntriesOf(k)[i].v)
          /\ IsContainerValue(EntriesOf(k)[j].v)
          /\ nodes[k].rows[i].childId # Undefined
          /\ nodes[k].rows[j].childId = Undefined

\* a container-valued entry left without a child by the depth limit alone
C18_WitnessDepth ==
    /\ Built
    /\ Len(nodes) < maxNodes
    /\ \E k \in Positions : \E i \in 1 .. VisibleCount(k) :
          /\ IsContainerValue(EntriesOf(k)[i].v)
          /\ nodes[k].depth + 1 > maxDepth
          /\ nodes[k].rows[i].childId = Undefined

---------------------------------------------------------------------------
(* C19 *)

\* the number of nodes taken off the queue so far
Dequeued == Len(nodes) - Len(queue)

\* the queue holds, in order, the nodes created and not yet taken
QueueIsRestOfNodes ==
    \A i \in 1 .. Len(queue) :
        /\ Dequeued + i \in Positions
        /\ queue[i].id = "n" \o ToString(Dequeued + i - 1)
        /\ queue[i].id = nodes[Dequeued + i].id

\* a step that takes a node off the queue
DequeueStep == Len(queue') < Len(queue)

\* C19: nodes are expanded in the order of their creation: each step that
\* takes a node off the queue takes exactly the node of the lowest id not
\* yet taken, the queue is always the created nodes not yet taken, in id
\* order, and empty at return; so in the returned nodes depth is
\* non-decreasing and the children of a lower-id node precede the children
\* of a higher-id node.
C19_FifoExpansion ==
    /\ [](pc \in {"loop", "array", "object", "built"} => QueueIsRestOfNodes)
    /\ [][DequeueStep =>
            /\ Len(queue') = Len(queue) - 1
            /\ nodes' = nodes
            /\ current' # <<>> => current'[1].id = "n" \o ToString(Dequeued)]_vars
    /\ [](Built =>
            /\ queue = <<>>
            /\ \A i, j \in Positions : i <= j => nodes[i].depth <= nodes[j].depth
            /\ \A i, j \in 1 .. Len(edges) :
                  NodeIndex(edges[i].from) < NodeIndex(edges[j].from)
                      => NodeIndex(edges[i].to) < NodeIndex(edges[j].to))

\* the second node is being expanded while a third, created after it, waits
C19_Witness ==
    /\ current # <<>>
    /\ current[1].id = "n1"
    /\ queue # <<>>
    /\ queue[1].id = "n2"

\* a returned graph in which two nodes of different ids both have children
C19_WitnessChildren ==
    /\ Built
    /\ \E i, j \in 1 .. Len(edges) :
          NodeIndex(edges[i].from) < NodeIndex(edges[j].from)

---------------------------------------------------------------------------
(* C20 *)

\* the positions in edges of the edges into id
Incoming(id) == {j \in 1 .. Len(edges) : edges[j].to = id}

\* the graph is a tree rooted at rootId: ids are distinct, edges join nodes
\* of the graph, parent before child, the root has no incoming edge and
\* every other node exactly one
IsTree ==
    /\ rootId \in Ids
    /\ Cardinality(Ids) = Len(nodes)
    /\ \A e \in EdgeSet :
          /\ e.from \in Ids
          /\ e.to \in Ids
          /\ NodeIndex(e.from) < NodeIndex(e.to)
    /\ Incoming(rootId) = {}
    /\ \A id \in Ids \ {rootId} : Cardinality(Incoming(id)) = 1

\* C20: the graph returned by buildJsonGraph is a tree rooted at rootId;
\* in the layout of it every call of dfs is for a node of the graph not
\* yet visited, and when the walk is over every node has its rectangle,
\* so the loop over unreached nodes places none.
C20_TreeSoGuardsIdle ==
    /\ Built => IsTree
    /\ (pc = "dfs" /\ ~stack[Len(stack)].entered) =>
          /\ NodeIndex(stack[Len(stack)].nodeId) # 0
          /\ stack[Len(stack)].nodeId \notin visited
    /\ pc = "rest" =>
          /\ visited = Ids
          /\ DOMAIN rects = Ids

\* the walk of a built graph of three nodes or more is over
C20_Witness ==
    /\ pc = "rest"
    /\ Len(nodes) >= 3
    /\ \E e \in EdgeSet : e.from # rootId

\* the layout of such a graph has returned
C20_WitnessDone == LaidOut /\ Len(nodes) >= 3 /\ DOMAIN rects = Ids

---------------------------------------------------------------------------
(* C15 *)

\* the two invocations that interleave
FirstCall == IF who = 1 THEN Locals ELSE other
SecondCall == IF who = 2 THEN Locals ELSE other

\* C15: an invocation of buildJsonGraph and then layoutJsonGraph whose
\* steps interleave in any way with the steps of another invocation
\* returns exactly the graph and the layout it returned when it ran alone
\* on the same arguments.
C15_InterleavedAsAlone ==
    (who # 0 /\ FirstCall.pc = "done") => Result(FirstCall) = alone

\* the first invocation has returned a graph of two nodes or more while
\* the second, which has created a node already, is in one of its loops
C15_Witness ==
    /\ who = 1
    /\ pc = "done"
    /\ Len(nodes) >= 2
    /\ other.pc \in {"array", "object"}
    /\ Len(other.nodes) >= 2

\* the first invocation is in its walk while the second is in a loop
C15_WitnessBoth ==
    /\ who = 2
    /\ pc \in {"array", "object"}
    /\ Len(nodes) >= 2
    /\ other.pc = "dfs"
    /\ Len(other.stack) >= 2

---------------------------------------------------------------------------
(* C21 *)

\* a step of the walk that places a node
WalkPlaces == pc = "dfs" /\ DOMAIN rects' # DOMAIN rects

\* the node a step places
Placed == CHOOSE id \in DOMAIN rects' : id \notin DOMAIN rects

\* the number of edges walked from rootId to the innermost activation
WalkDepth == Len(stack) - 1

\* the rectangle of a node the walk places has x = 28 + 400 * the number of
\* edges walked from rootId
C21_ColumnByWalkDepth ==
    [][WalkPlaces =>
          /\ DOMAIN rects' = DOMAIN rects \cup {Placed}
          /\ Placed = stack[Len(stack)].nodeId
          /\ rects'[Placed].x = (28 + 400 * WalkDepth) * Scale]_vars

\* C21: every node the walk places has x = 28 + 400 * depth, depth the
\* number of edges walked from rootId; in the layout of a built graph that
\* is the node's depth field, so nodes of equal depth have equal x.
C21_ColumnByDepth ==
    /\ C21_ColumnByWalkDepth
    /\ [](LaidOut =>
            /\ \A k \in Positions :
                  RectOf(nodes[k].id).x = (28 + 400 * nodes[k].depth) * Scale
            /\ \A j, k \in Positions :
                  nodes[j].depth = nodes[k].depth
                      => RectOf(nodes[j].id).x = RectOf(nodes[k].id).x)

\* a layout with two nodes in one column other than the root's, and a node
\* two columns to the right of the root
C21_Witness ==
    /\ LaidOut
    /\ \E j, k \in Positions : j # k /\ nodes[j].depth = 1 /\ nodes[k].depth = 1
    /\ \E k \in Positions : nodes[k].depth = 2

---------------------------------------------------------------------------
(* C22 *)

\* id has no outgoing edge
Leaf(id) == \A e \in EdgeSet : e.from # id

\* the rectangles of the leaves the walk has placed
LeafRects == {rects[id] : id \in {i \in DOMAIN rects : Leaf(i)}}

\* C22: during the walk a leaf is placed at the cursor and the cursor then
\* stands at that leaf's y + h + 26; no other step of the walk moves the
\* cursor, which stands at 28 until the first leaf is placed. So when the
\* walk is over the first leaf has y = 28 and every other leaf has
\* y = y + h + 26 of the leaf placed before it, whatever their depths.
C22_LeavesAtCursor ==
    /\ [][pc = "dfs" =>
            IF WalkPlaces /\ Leaf(Placed)
            THEN /\ rects'[Placed].y = nextY
                 /\ nextY' = rects'[Placed].y + rects'[Placed].h + 26 * Scale
                 /\ nextY' > nextY
            ELSE nextY' = nextY]_vars
    /\ []((pc = "dfs" /\ LeafRects = {}) => nextY = 28 * Scale)
    /\ [](pc = "rest" =>
            /\ LeafRects # {} => \E r \in LeafRects : r.y = 28 * Scale
            /\ \A r \in LeafRects :
                  \/ r.y = 28 * Scale
                  \/ \E p \in LeafRects : r.y = p.y + p.h + 26 * Scale
            /\ \A r \in LeafRects :
                  r.y + r.h + 26 * Scale = nextY
                      \/ \E s \in LeafRects : s.y = r.y + r.h + 26 * Scale)

\* the walk is over with two leaves placed at different depths, and two
\* nodes with outgoing edges placed as well
C22_Witness ==
    /\ pc = "rest"
    /\ Cardinality({id \in DOMAIN rects : Leaf(id)}) >= 2
    /\ \E a, b \in Positions :
          /\ Leaf(nodes[a].id)
          /\ Leaf(nodes[b].id)
          /\ nodes[a].depth # nodes[b].depth
    /\ \E c, d \in Positions : c # d /\ ~Leaf(nodes[c].id) /\ ~Leaf(nodes[d].id)

---------------------------------------------------------------------------
(* C23 *)

\* twice the vertical centre y + h / 2 of a rectangle
TwiceCentre(r) == 2 * r.y + r.h

\* the edges from id of the lowest and of the highest fromRow
FirstEdge(id) ==
    CHOOSE e \in EdgeSet :
        e.from = id /\ \A f \in EdgeSet : f.from = id => e.fromRow <= f.fromRow
LastEdge(id) ==
    CHOOSE e \in EdgeSet :
        e.from = id /\ \A f \in EdgeSet : f.from = id => e.fromRow >= f.fromRow

---------------------------------------------------------------------------
(* C24 *)

\* C24: in the layout of a built graph, whatever the order of its edges in
\* graph.edges, of two children of one node the one of the lower fromRow
\* has its vertical centre strictly above the other's.
C24_ChildrenInRowOrder ==
    LaidOut =>
        \A a, b \in EdgeSet :
            (a.from = b.from /\ a.fromRow < b.fromRow) =>
                TwiceCentre(RectOf(a.to)) < TwiceCentre(RectOf(b.to))

\* a layout of a graph whose edges came with two edges of one node against
\* their fromRow order
C24_Witness ==
    /\ LaidOut
    /\ \E i, j \in 1 .. Len(edges) :
          /\ i < j
          /\ edges[i].from = edges[j].from
          /\ edges[i].fromRow > edges[j].fromRow

\* a layout of the graph of [[{},1,1],{}], a tall first child centred on a
\* short child of its own, with the edges out of order
C24_WitnessTall ==
    /\ C24_Witness
    /\ root = TallSiblingValue
    /\ Len(nodes) = 4

---------------------------------------------------------------------------
(* C25 *)

\* the positions in graph.nodes of the nodes the walk did not reach
Unreached == {k \in Positions : nodes[k].id \notin visited}

\* the unreached nodes are stacked in graph.nodes order, each 26 below the
\* one before it
C25_UnreachedStacked ==
    LaidOut =>
        \A j, k \in Unreached :
            (j < k /\ \A i \in Unreached : ~(j < i /\ i < k)) =>
                RectOf(nodes[k].id).y =
                    RectOf(nodes[j].id).y + RectOf(nodes[j].id).h + 26 * Scale

\* C25, as claimed: for any input graph the rectangle of a node the walk
\* did not reach has y >= y + h of every rectangle the walk placed, and
\* the unreached nodes are stacked in graph.nodes order 26 apart.
C25_UnreachedBelowPlaced ==
    /\ C25_UnreachedStacked
    /\ LaidOut =>
          \A u \in Unreached : \A id \in visited :
              RectOf(nodes[u].id).y >= RectOf(id).y + RectOf(id).h

\* the graph of a root of three rows whose only child has none, with a
\* third node no edge leads to
TallRootGraph ==
    /\ nodes = TallRootNodes
    /\ edges = <<[from |-> "n0", to |-> "n1", fromRow |-> 0]>>
    /\ rootId = "n0"

\* on that graph the unreached node is below the rectangles of the walk
C25_TallRootBelowPlaced == TallRootGraph => C25_UnreachedBelowPlaced

---------------------------------------------------------------------------
(* C26 *)

\* the activations of dfs that passed the two guards of lines 57-59
Entered == {i \in 1 .. Len(stack) : stack[i].entered}

\* C26: on any input graph, with cycles, self-loops, shared children or
\* edges to missing ids, layoutJsonGraph returns; no node id is walked by
\* two activations of dfs: an activation for a visited id returns at once
\* and changes nothing, and a rectangle once assigned is never assigned
\* again.
C26_LayoutReturnsOncePerNode ==
    /\ <>LaidOut
    /\ [](\A i, j \in Entered : stack[i].nodeId = stack[j].nodeId => i = j)
    /\ [](\A i \in Entered : stack[i].nodeId \in visited)
    /\ [](DOMAIN rects \subseteq Ids)
    /\ [][/\ visited \subseteq visited'
          /\ Cardinality(visited') <= Cardinality(visited) + 1
          /\ DOMAIN rects \subseteq DOMAIN rects'
          /\ \A id \in DOMAIN rects : rects'[id] = rects[id]
          /\ (pc = "dfs" /\ ~stack[Len(stack)].entered
                /\ stack[Len(stack)].nodeId \in visited) =>
                   /\ rects' = rects
                   /\ visited' = visited
                   /\ nextY' = nextY
                   /\ Len(stack') = Len(stack) - 1]_vars

\* a layout returned for a graph with a cycle of two nodes, both walked
C26_Witness ==
    /\ LaidOut
    /\ \E e, f \in EdgeSet :
          /\ e.from # e.to
          /\ e.from = f.to
          /\ e.to = f.from
          /\ {e.from, e.to} \subseteq visited

\* a layout returned for a graph with a child shared by two rows and an
\* edge to a missing id
C26_WitnessShared ==
    /\ LaidOut
    /\ \E e, f \in EdgeSet :
          /\ e # f
          /\ e.from \in visited
          /\ f.from \in visited
          /\ \/ e.to = f.to /\ e.to \in visited /\ e.to # e.from
             \/ e.to \in visited /\ e.to # e.from /\ f.to \notin Ids

---------------------------------------------------------------------------
(* C27 *)

\* a step of the build at which a limit is hit: an array longer than
\* maxChildrenPerNode is taken up, an object loop ends with keys left, or
\* the row of a container-valued entry is recorded without a child
LimitHit ==
    \/ /\ pc = "loop"
       /\ pc' = "array"
       /\ Len(current'[1].value.kids) > maxChildrenPerNode
    \/ /\ pc = "object"
       /\ pc' = "loop"
       /\ Len(rows) < Len(current[1].value.kids)
    \/ /\ EntryStep
       /\ IsContainerValue(current[1].value.kids[shown + 1].v)
       /\ nodes' = nodes

\* C27: truncated is false when the build starts, no step takes it from
\* true to false, and a step at which a limit is hit leaves it true; so it
\* is true in the returned graph if a limit was hit at any step.
C27_TruncatedMonotone ==
    /\ ~truncated
    /\ [][truncated => truncated']_vars
    /\ [][LimitHit => truncated']_vars

\* the flag is already true when a later entry, within all limits, is
\* recorded with a child
C27_Witness ==
    /\ truncated
    /\ pc \in {"array", "object"}
    /\ rows # <<>>
    /\ rows[Len(rows)].childId # Undefined

\* the build has returned with the flag set, the last entry recorded
\* having hit no limit
C27_WitnessBuilt ==
    /\ Built
    /\ truncated
    /\ \E k \in Positions :
          /\ k > 1
          /\ ~OverLimit(k)
          /\ ~SkippedChild(k)

---------------------------------------------------------------------------
(* C28 *)

\* entry i of node k is a visible container-valued entry within the depth
\* limit whose row is recorded without a child
SkippedEligible(k, i) ==
    /\ i <= Len(nodes[k].rows)
    /\ i <= VisibleCount(k)
    /\ IsContainerValue(EntriesOf(k)[i].v)
    /\ nodes[k].depth + 1 <= maxDepth
    /\ nodes[k].rows[i].childId = Undefined

\* such an entry has been recorded, in a node expanded before or in the
\* node that is being expanded
SkippedSoFar ==
    \/ \E k \in Positions : \E i \in 1 .. Len(nodes[k].rows) : SkippedEligible(k, i)
    \/ /\ current # <<>>
       /\ \E i \in 1 .. Len(rows) :
             /\ IsContainerValue(current[1].value.kids[i].v)
             /\ current[1].depth + 1 <= maxDepth
             /\ rows[i].childId = Undefined

\* entry i of node k is processed before entry j of node m
Earlier(k, i, m, j) == k < m \/ (k = m /\ i < j)

\* C28: once the row of a visible container-valued entry within the depth
\* limit is recorded without a child, the node count has reached maxNodes
\* and no later step creates a node, and the returned graph has exactly
\* max(maxNodes, 1) nodes; so in the returned graph every such entry
\* processed before the entry a node was created for has a child.
C28_BudgetInFifoOrder ==
    /\ [](SkippedSoFar => Len(nodes) >= maxNodes)
    /\ [][SkippedSoFar => Len(nodes') = Len(nodes)]_vars
    /\ []((Built /\ SkippedSoFar) => Len(nodes) = Max(maxNodes, 1))
    /\ [](Built =>
            \A e \in EdgeSet : \A k \in Positions : \A i \in 1 .. Len(nodes[k].rows) :
                Earlier(k, i, NodeIndex(e.from), e.fromRow + 1)
                    => ~SkippedEligible(k, i))

\* a returned graph with a node at depth 2 and, processed after the entry
\* it was created for, an entry left without a child by the node limit
C28_Witness ==
    /\ Built
    /\ \E e \in EdgeSet : \E k \in Positions : \E i \in 1 .. Len(nodes[k].rows) :
          /\ nodes[NodeIndex(e.to)].depth = 2
          /\ Earlier(NodeIndex(e.from), e.fromRow + 1, k, i)
          /\ k # NodeIndex(e.from)
          /\ SkippedEligible(k, i)

---------------------------------------------------------------------------
(* C29 *)

\* C29, as claimed: in the layout of a built graph every rectangle has
\* y >= 28, and bounds.minY = 28.
C29_WithinPaddedCanvas ==
    LaidOut =>
        /\ \A id \in Ids : RectOf(id).y >= 28 * Scale
        /\ bounds.minY = 28 * Scale

\* the leaves, at least, are within the padded canvas
C29_LeavesWithinPaddedCanvas ==
    LaidOut => \A id \in Ids : Leaf(id) => RectOf(id).y >= 28 * Scale

---------------------------------------------------------------------------
(* C30 *)

C30_WitnessDropped ==
    /\ pc = "hook"
    /\ hook.graph = <<>>
    /\ hook.parsedGen > 0
    /\ hook.inputGen > hook.parsedGen

====
